---- MODULE Spec2Model ----
(***************************************************************************)
(* Credential registration and sign-in of FrontendForge_Sosial:            *)
(*   - POST /api/register              (src/unnamed/part_000)              *)
(*   - NextAuth authorize / callbacks   (src/src/app/api/auth/...)         *)
(*   - the register page's onSubmit     (src/src/app/auth/register)        *)
(***************************************************************************)
EXTENDS Integers, Sequences, FiniteSets, TLC

\* ------------------------------------------------------------------ values

\* A JSON field that is absent from the request body (JS undefined).
Undefined == "<undefined>"
\* JS null or undefined where an object is expected.
Null == [null |-> TRUE]
\* A text column that holds SQL NULL (JS null).
NullText == "<null>"

\* The JS values `!v` rejects among the strings a request can carry.
Falsy == {Undefined, ""}
Truthy(v) == v \notin Falsy

Emails == {"a@x.com", "b@x.com"}
Usernames == {"alice", "bob"}
Passwords == {"secret123", "hunter2"}
Salts == {"s1", "s2"}

\* Bodies a caller of the endpoint can send: each field present, empty or absent.
ApiBodies ==
  [email : Emails \cup Falsy, username : Usernames \cup Falsy,
   password : Passwords \cup Falsy, displayName : {Undefined}]

\* The optional field: absent, blank (what the form sends) or filled in.
DisplayNames == {Undefined, "", "Alice A"}
\* Bodies of the calls made one at a time: each person registers under one email
\* and one username.
SeqBodies ==
  {b \in [email : Emails, username : Usernames, password : Passwords,
          displayName : DisplayNames] :
     (b.email = "a@x.com") <=> (b.username = "alice")}
\* Credentials a caller of the sign-in entry point can send.
Credentials == [email : Emails \cup Falsy, password : Passwords \cup Falsy]

\* Number of registration requests the server handles in one run.
MaxReqs == 2
Slots == 1 .. MaxReqs

\* Number of token refreshes followed after one login.
MaxRefresh == 2

VARIABLES
  users,       \* the User table: a set of rows
  nextId,      \* the id the next inserted row gets
  reqs,        \* the POST /api/register invocations, by arrival order
  lastReg,     \* the registration call answered 201 that no other registration
               \* followed, and whether a sign-in has followed it
  authResult,  \* what the last authorize call returned
  authCalls,   \* the store and bcrypt calls the last authorize call made
  identity,    \* the Identity the current token was issued for
  token,       \* the session token the browser holds
  session,     \* the session view last derived from the current token
  refreshes,   \* token refreshes since the login
  form,        \* the register page's form state
  error,       \* the message the page shows
  loading,     \* the page's loading flag
  navigated,   \* router.push("/profile") was called
  sub,         \* the running onSubmit: where it awaits, the form and request it holds
  timer,       \* the 10 second timer of the running onSubmit
  log          \* what the last onSubmit did, in order

storeVars == <<users, nextId>>
authVars == <<lastReg, authResult, authCalls, identity, token, session, refreshes>>
clientVars == <<form, error, loading, navigated, sub, timer, log>>
vars ==
  <<users, nextId, reqs, lastReg, authResult, authCalls, identity, token, session,
    refreshes, form, error, loading, navigated, sub, timer, log>>

\* ------------------------------------------------------------------ JS objects

\* obj[k] = v on an object whose keys are DOMAIN obj.
SetKey(obj, k, v) == [x \in DOMAIN obj \cup {k} |-> IF x = k THEN v ELSE obj[x]]

\* ------------------------------------------------------------------ register page

\* What the inputs of the form can hold: the initial "" or a value typed in.
FieldValues ==
  [email |-> {"", "a@x.com"}, username |-> {"", "alice"},
   displayName |-> {"", "Alice A"}, password |-> {"", "secret123"}]

EmptyForm == [email |-> "", username |-> "", displayName |-> "", password |-> ""]
IdleSub == [pc |-> "idle", form |-> EmptyForm, slot |-> 0, status |-> 0]

\* The messages of setError (in ASCII).
MsgConflict == "Bruker finnes allerede"
MsgMissing == "Mangler felter"
MsgServer == "Serverfeil - prov igjen"
MsgSignIn == "Feil e-post/passord"
MsgTimeout == "Tidsavbrudd - prov igjen"
MsgNetwork == "Nettverksfeil - sjekk tilkoblingen"

InitClientVars ==
  /\ form = EmptyForm
  /\ error = ""
  /\ loading = FALSE
  /\ navigated = FALSE
  /\ sub = IdleSub
  /\ timer = "off"
  /\ log = <<>>

\* ------------------------------------------------------------------ bcryptjs

BcryptCost == 12

\* bcrypt.hash(password, cost) with the salt it drew: the hash embeds cost and salt.
bcryptHash(password, salt) ==
  [cost |-> BcryptCost, salt |-> salt, digest |-> <<salt, BcryptCost, password>>]

\* Mutant: the comparison re-hashes with a salt of its own, not the stored one.
bcryptCompare_OwnSalt(password, hash) ==
  hash.digest = <<"s1", hash.cost, password>>

\* bcrypt.compare(password, hash): re-hash with the salt and cost the hash embeds.
bcryptCompare(password, hash) ==
  hash.digest = <<hash.salt, hash.cost, password>>

\* ------------------------------------------------------------------ user store

\* Mutant: the pre-check finds nobody.
findFirst_Nobody(us, email, username) == {}

\* Mutant: the pre-check looks at the email only.
findFirst_EmailOnly(us, email, username) ==
  {u.id : u \in {v \in us : v.email = email}}

\* prisma.user.findFirst({ where: { OR: [{ email }, { username }] }, select: { id } })
findFirst(us, email, username) ==
  {u.id : u \in {v \in us : v.email = email \/ v.username = username}}

\* Mutant: a table without unique constraints.
UniqueViolation_None(us, data) == FALSE

\* The unique constraints of the User table on email and on username.
UniqueViolation(us, data) ==
  \E u \in us : u.email = data.email \/ u.username = data.username

\* The row prisma.user.create inserts: an absent optional column is stored as NULL.
NewRow(id, data) ==
  [id |-> id, email |-> data.email, username |-> data.username,
   passwordHash |-> data.passwordHash,
   displayName |-> IF data.displayName = Undefined THEN NullText
                   ELSE data.displayName]

\* ------------------------------------------------------------------ POST /api/register

NoBody == [email |-> Undefined, username |-> Undefined, password |-> Undefined,
           displayName |-> Undefined]
NoResp == [status |-> 0]
\* One invocation of the handler: where it stands, the body it parsed, its answer,
\* the store operations it has made, and whether the store already held its email
\* or username when it arrived.
IdleReq ==
  [pc |-> "idle", body |-> NoBody, resp |-> NoResp, ops |-> <<>>, dup |-> FALSE]

Resp400 == [status |-> 400, error |-> "Mangler felter"]
Resp409 == [status |-> 409, error |-> "bruker finnes allerede"]
\* Mutant: the catch passes the exception on to the caller.
Resp500_WithDetail ==
  [status |-> 500, error |-> "Serverfeil", detail |-> "PrismaClientKnownRequestError"]

\* Lines 35-37: the answer of the catch, which does not bind the exception.
Resp500 == [status |-> 500, error |-> "Serverfeil"]
\* Mutant: the insert has no select, so the whole row is returned.
Resp201_WholeRow(row) == [status |-> 201, user |-> row]

\* Lines 30-34: the answer holds the columns the select of line 32 names.
Resp201(row) ==
  [status |-> 201, user |-> [id |-> row.id, email |-> row.email, username |-> row.username]]

\* Mutant: the validation forgets the password.
MissingFields_NoPassword(body) ==
  ~Truthy(body.email) \/ ~Truthy(body.username)

\* if (!email || !username || !password)
MissingFields(body) ==
  ~Truthy(body.email) \/ ~Truthy(body.username) \/ ~Truthy(body.password)

\* Lines 13-17: the body is parsed and validated; a request with a missing field
\* is answered 400 at once.
POST_Begin(r, body) ==
  /\ reqs[r].pc = "idle"
  /\ \A q \in Slots : q < r => reqs[q].pc # "idle"
  /\ LET dup == \E u \in users : u.email = body.email \/ u.username = body.username IN
     reqs' = [reqs EXCEPT ![r] =
       IF MissingFields(body)
       THEN [pc |-> "done", body |-> body, resp |-> Resp400, ops |-> <<>>, dup |-> dup]
       ELSE [pc |-> "find", body |-> body, resp |-> NoResp, ops |-> <<>>, dup |-> dup]]
  /\ UNCHANGED <<users, nextId>>
  /\ UNCHANGED authVars

\* Lines 18-27: the existence pre-check.
POST_FindFirst(r) ==
  /\ reqs[r].pc = "find"
  /\ LET exists == findFirst(users, reqs[r].body.email, reqs[r].body.username) IN
     reqs' = [reqs EXCEPT ![r] =
       IF exists # {}
       THEN [@ EXCEPT !.pc = "done", !.resp = Resp409, !.ops = Append(@, "findFirst")]
       ELSE [@ EXCEPT !.pc = "create", !.ops = Append(@, "findFirst")]]
  /\ UNCHANGED <<users, nextId>>
  /\ UNCHANGED authVars

\* Lines 28-34 and 35-37 on store `us`: hash, insert, answer 201; a constraint
\* violation raised by the insert is an exception like any other and is answered
\* by the catch.
HashAndCreate(us, id, b, salt) ==
  LET data == [email |-> b.email, username |-> b.username,
               passwordHash |-> bcryptHash(b.password, salt),
               displayName |-> b.displayName]
      row == NewRow(id, data)
  IN IF UniqueViolation(us, data)
     THEN [resp |-> Resp500, users |-> us, nextId |-> id, op |-> "create:P2002"]
     ELSE [resp |-> Resp201(row), users |-> us \cup {row}, nextId |-> id + 1,
           op |-> "create"]

POST_Create(r) ==
  /\ reqs[r].pc = "create"
  /\ \E salt \in Salts :
       LET o == HashAndCreate(users, nextId, reqs[r].body, salt) IN
       /\ users' = o.users
       /\ nextId' = o.nextId
       /\ reqs' = [reqs EXCEPT ![r] =
            [@ EXCEPT !.pc = "done", !.resp = o.resp, !.ops = Append(@, o.op)]]
  /\ UNCHANGED authVars

\* Lines 35-37: an exception of a pending await (storage unavailable, hashing
\* failure) is answered 500. A fault of the environment: part of SpecFaults only.
POST_Throws(r) ==
  /\ reqs[r].pc \in {"find", "create"}
  /\ reqs' = [reqs EXCEPT ![r] =
       [@ EXCEPT !.pc = "done", !.resp = Resp500, !.ops = Append(@, "throw")]]
  /\ UNCHANGED <<users, nextId>>
  /\ UNCHANGED authVars


\* Line 13 under the try of line 12: req.json() rejects on a body that is not JSON,
\* before any field is read. A fault of the caller: part of SpecFaults only.
POST_ParseThrows(r) ==
  /\ reqs[r].pc = "idle"
  /\ \A q \in Slots : q < r => reqs[q].pc # "idle"
  /\ reqs' = [reqs EXCEPT ![r] =
       [@ EXCEPT !.pc = "done", !.resp = Resp500, !.ops = <<"throw">>]]
  /\ UNCHANGED <<users, nextId>>
  /\ UNCHANGED authVars

\* ------------------------------------------------------------------ authorize

\* Mutant: the password is not verified.
authorize_NoVerify(us, credentials) ==
  IF ~Truthy(credentials.email) \/ ~Truthy(credentials.password) THEN Null
  ELSE LET found == {u \in us : u.email = credentials.email} IN
       IF found = {} THEN Null
       ELSE LET user == CHOOSE u \in found : TRUE IN
            IF user.passwordHash = Null THEN Null
            ELSE [id |-> user.id,
                  name |-> IF user.displayName = NullText THEN user.username
                           ELSE user.displayName,
                  email |-> user.email]

\* Lines 39-61 on store `us`.
authorize(us, credentials) ==
  IF ~Truthy(credentials.email) \/ ~Truthy(credentials.password) THEN Null
  ELSE LET found == {u \in us : u.email = credentials.email} IN
       IF found = {} THEN Null
       ELSE LET user == CHOOSE u \in found : TRUE IN
            IF user.passwordHash = Null THEN Null
            ELSE IF ~bcryptCompare(credentials.password, user.passwordHash) THEN Null
            ELSE [id |-> user.id,
                  name |-> IF user.displayName = NullText THEN user.username
                           ELSE user.displayName,
                  email |-> user.email]

\* Mutant: the user is looked up before the credentials are validated.
authorizeCalls_LookupFirst(us, credentials) ==
  IF {u \in us : u.email = credentials.email} = {} THEN <<"findUnique">>
  ELSE <<"findUnique", "compare">>

\* Lines 40-52: the calls authorize makes on store `us`, in order: findUnique of
\* line 42 is behind the return of line 40, bcrypt.compare of line 48 behind the
\* return of line 46.
authorizeCalls(us, credentials) ==
  IF ~Truthy(credentials.email) \/ ~Truthy(credentials.password) THEN <<>>
  ELSE LET found == {u \in us : u.email = credentials.email} IN
       IF found = {} THEN <<"findUnique">>
       ELSE LET user == CHOOSE u \in found : TRUE IN
            IF user.passwordHash = Null THEN <<"findUnique">>
            ELSE <<"findUnique", "compare">>

\* ------------------------------------------------------------------ callbacks

\* The token NextAuth builds from the Identity at login, before callbacks.jwt.
DefaultToken(user) == [name |-> user.name, email |-> user.email, sub |-> user.id]

\* The session NextAuth builds from the token before callbacks.session; the
\* callback also provides for one that has no user object.
SessionInputs(t) ==
  {[user |-> [name |-> t.name, email |-> t.email], expires |-> "exp"],
   [expires |-> "exp"]}

\* Mutant: a refresh rebuilds the token without the userId claim.
jwt_DropsOnRefresh(t, user) ==
  IF user # Null THEN SetKey(t, "userId", user.id)
  ELSE [k \in DOMAIN t \ {"userId"} |-> t[k]]

\* Lines 72-77: callbacks.jwt({ token, user }); user is Null on a refresh.
jwt(t, user) ==
  IF user # Null THEN SetKey(t, "userId", user.id) ELSE t

\* Mutant: the id is set only on the user object the callback creates itself.
sessionCb_OnlyNewUser(s, t) ==
  IF "user" \notin DOMAIN s
  THEN SetKey(s, "user", [x \in {"id"} |-> t.userId])
  ELSE s

\* Lines 78-82: callbacks.session({ session, token }).
sessionCb(s, t) ==
  LET s1 == IF "user" \notin DOMAIN s THEN SetKey(s, "user", [x \in {} |-> x]) ELSE s
  IN IF t # Null /\ "userId" \in DOMAIN t /\ t.userId # 0
     THEN [s1 EXCEPT !.user = SetKey(s1.user, "id", t.userId)]
     ELSE s1

\* ------------------------------------------------------------------ calls made one at a time

NoCall == [status |-> 0]
NoResult == [none |-> TRUE]

InitAuthVars ==
  /\ lastReg = NoCall
  /\ authResult = NoResult
  /\ authCalls = <<>>
  /\ identity = Null
  /\ token = Null
  /\ session = Null
  /\ refreshes = 0

\* The whole handler, lines 11-38, on store `us`.
POST(us, id, body, salt) ==
  IF MissingFields(body)
  THEN [resp |-> Resp400, users |-> us, nextId |-> id]
  ELSE IF findFirst(us, body.email, body.username) # {}
  THEN [resp |-> Resp409, users |-> us, nextId |-> id]
  ELSE LET o == HashAndCreate(us, id, body, salt) IN
       [resp |-> o.resp, users |-> o.users, nextId |-> o.nextId]

\* A registration call that nothing interleaves with.
RegisterCall(body) ==
  \E salt \in Salts :
    LET o == POST(users, nextId, body, salt) IN
    /\ users' = o.users
    /\ nextId' = o.nextId
    /\ lastReg' = IF o.resp.status = 201
                  THEN [status |-> 201, id |-> o.resp.user.id, email |-> body.email,
                        password |-> body.password, fresh |-> TRUE]
                  ELSE NoCall
    /\ UNCHANGED <<reqs, authResult, authCalls, identity, token, session, refreshes>>

\* A sign-in: authorize, and on an Identity the token issued through callbacks.jwt.
SignIn(credentials) ==
  LET user == authorize(users, credentials) IN
  /\ authResult' = user
  /\ authCalls' = authorizeCalls(users, credentials)
  /\ lastReg' = IF lastReg = NoCall THEN NoCall ELSE [lastReg EXCEPT !.fresh = FALSE]
  /\ IF user # Null
     THEN /\ identity' = user
          /\ token' = jwt(DefaultToken(user), user)
          /\ session' = Null
          /\ refreshes' = 0
     ELSE UNCHANGED <<identity, token, session, refreshes>>
  /\ UNCHANGED <<users, nextId, reqs>>

\* A token refresh: callbacks.jwt without an Identity.
TokenRefresh ==
  /\ token # Null
  /\ refreshes < MaxRefresh
  /\ token' = jwt(token, Null)
  /\ refreshes' = refreshes + 1
  /\ UNCHANGED <<users, nextId, reqs, lastReg, authResult, authCalls, identity, session>>

\* A session view requested from the token.
SessionDerive ==
  /\ token # Null
  /\ \E s \in SessionInputs(token) : session' = sessionCb(s, token)
  /\ UNCHANGED <<users, nextId, reqs, lastReg, authResult, authCalls, identity, token,
                 refreshes>>

\* An account that has no password hash (line 46), created outside this flow.
FederatedUser ==
  [id |-> 1, email |-> "b@x.com", username |-> "bob", passwordHash |-> Null,
   displayName |-> NullText]

InitAuth ==
  /\ \/ users = {} /\ nextId = 1
     \/ users = {FederatedUser} /\ nextId = 2
  /\ reqs = [r \in Slots |-> IdleReq]
  /\ InitAuthVars
  /\ InitClientVars

NextAuth ==
  \/ \E body \in SeqBodies : RegisterCall(body) /\ UNCHANGED clientVars
  \/ \E credentials \in Credentials : SignIn(credentials) /\ UNCHANGED clientVars
  \/ TokenRefresh /\ UNCHANGED clientVars
  \/ SessionDerive /\ UNCHANGED clientVars

\* Registration and sign-in calls made one at a time, and the token hooks.
SpecAuth == InitAuth /\ [][NextAuth]_vars

\* ------------------------------------------------------------------ onSubmit

\* JSON.stringify(form): the four fields, each a string.
FormBody(f) ==
  [email |-> f.email, username |-> f.username, password |-> f.password,
   displayName |-> f.displayName]

\* Lines 59-61: the message for a response that is not ok; data is the parsed body,
\* or Null when it could not be read.
ErrorFor(status, data) ==
  IF status = 409 THEN MsgConflict
  ELSE IF status = 400
       THEN IF data # Null /\ Truthy(data.error) THEN data.error ELSE MsgMissing
       ELSE MsgServer

\* res.ok
ResOk(status) == status >= 200 /\ status <= 299

ResEvent(status) ==
  CASE status = 201 -> "res:201"
    [] status = 400 -> "res:400"
    [] status = 409 -> "res:409"
    [] OTHER -> "res:500"

\* Lines 87-91: the finally block; the handler is over.
Finally ==
  /\ timer' = "off"
  /\ loading' = FALSE
  /\ sub' = IdleSub

\* Lines 99-123: an input's onChange.
onChange(field, value) ==
  /\ ~navigated
  /\ form[field] # value
  /\ form' = [form EXCEPT ![field] = value]
  /\ UNCHANGED <<error, loading, navigated, sub, timer, log>>
  /\ UNCHANGED <<users, nextId, reqs>>
  /\ UNCHANGED authVars

\* Lines 25-50: a submit event up to the await of fetch; the request is the next
\* invocation of the endpoint. The browser submits only with the required inputs
\* filled (lines 104, 110, 122).
onSubmit_Start(r) ==
  /\ ~navigated
  /\ ~loading
  /\ form.email # "" /\ form.username # "" /\ form.password # ""
  /\ error' = ""
  /\ timer' = "armed"
  /\ loading' = TRUE
  /\ sub' = [pc |-> "fetch", form |-> form, slot |-> r, status |-> 0]
  /\ log' = <<"fetch">>
  /\ POST_Begin(r, FormBody(form))
  /\ UNCHANGED <<form, navigated>>

\* Lines 27-29: a submit event while loading is true. The handler returns at line 27,
\* before e.preventDefault() of line 29, so the browser goes on to submit the form
\* itself: the document is loaded anew ("full page reload", line 28) and the page
\* starts over with its initial state. The running onSubmit is gone with the old
\* document, its timer too; the request it sent is the endpoint's to finish.
onSubmit_WhileLoading ==
  /\ ~navigated
  /\ loading
  /\ form' = EmptyForm
  /\ error' = ""
  /\ loading' = FALSE
  /\ sub' = IdleSub
  /\ timer' = "off"
  /\ log' = <<>>
  /\ UNCHANGED navigated
  /\ UNCHANGED <<users, nextId, reqs>>
  /\ UNCHANGED authVars

\* Mutant: the return of line 62 is missing, so signIn follows any response.
onSubmit_Response_NoReturn ==
  /\ sub.pc = "fetch"
  /\ reqs[sub.slot].pc = "done"
  /\ LET status == reqs[sub.slot].resp.status IN
     /\ sub' = [sub EXCEPT !.pc = "signin", !.status = status]
     /\ log' = log \o <<ResEvent(status), "signIn">>
  /\ UNCHANGED <<form, error, loading, navigated, timer>>
  /\ UNCHANGED <<users, nextId, reqs>>
  /\ UNCHANGED authVars

\* Lines 43-71: the response arrives; one that is not ok has its body read (line 58),
\* an ok one starts signIn (line 67).
onSubmit_Response ==
  /\ sub.pc = "fetch"
  /\ reqs[sub.slot].pc = "done"
  /\ LET status == reqs[sub.slot].resp.status IN
     IF ~ResOk(status)
     THEN /\ sub' = [sub EXCEPT !.pc = "body", !.status = status]
          /\ log' = Append(log, ResEvent(status))
     ELSE /\ sub' = [sub EXCEPT !.pc = "signin", !.status = status]
          /\ log' = log \o <<ResEvent(status), "signIn">>
  /\ UNCHANGED <<form, error, loading, navigated, timer>>
  /\ UNCHANGED <<users, nextId, reqs>>
  /\ UNCHANGED authVars

\* Lines 58-63: the body of a response that is not ok has been read.
onSubmit_Body ==
  /\ sub.pc = "body"
  /\ error' = ErrorFor(sub.status, reqs[sub.slot].resp)
  /\ log' = Append(log, "return")
  /\ Finally
  /\ UNCHANGED <<form, navigated>>
  /\ UNCHANGED <<users, nextId, reqs>>
  /\ UNCHANGED authVars

\* Mutant: the fetch is not given the controller's signal, so the abort of the
\* timer reaches nothing.
Timeout_NoSignal ==
  /\ timer = "armed"
  /\ log' = Append(log, "abort")
  /\ timer' = "fired"
  /\ UNCHANGED <<error, loading, sub>>
  /\ UNCHANGED <<form, navigated>>
  /\ UNCHANGED <<users, nextId, reqs>>
  /\ UNCHANGED authVars

\* Mutant: the abort ends the submit with the timeout message in whatever await it
\* finds it, as if signIn and the body read were given the signal and not caught.
Timeout_AbortsAll ==
  /\ timer = "armed"
  /\ log' = Append(log, "abort")
  /\ error' = MsgTimeout
  /\ Finally
  /\ UNCHANGED <<form, navigated>>
  /\ UNCHANGED <<users, nextId, reqs>>
  /\ UNCHANGED authVars

\* Mutant: the catch does not tell an abort from another error.
Timeout_NoAbortName ==
  /\ timer = "armed"
  /\ log' = Append(log, "abort")
  /\ CASE sub.pc = "fetch" -> error' = MsgNetwork /\ Finally
       [] sub.pc = "body" -> error' = ErrorFor(sub.status, Null) /\ Finally
       [] OTHER -> timer' = "fired" /\ UNCHANGED <<error, loading, sub>>
  /\ UNCHANGED <<form, navigated>>
  /\ UNCHANGED <<users, nextId, reqs>>
  /\ UNCHANGED authVars

\* Line 36: the timer fires and aborts the controller. A pending fetch rejects with
\* AbortError (lines 81-83); a pending res.json() rejects and is caught to null
\* (line 58); signIn does not use the signal.
Timeout ==
  /\ timer = "armed"
  /\ log' = Append(log, "abort")
  /\ CASE sub.pc = "fetch" -> error' = MsgTimeout /\ Finally
       [] sub.pc = "body" -> error' = ErrorFor(sub.status, Null) /\ Finally
       [] OTHER -> timer' = "fired" /\ UNCHANGED <<error, loading, sub>>
  /\ UNCHANGED <<form, navigated>>
  /\ UNCHANGED <<users, nextId, reqs>>
  /\ UNCHANGED authVars

\* Lines 81-84: fetch rejects with an error that is not an abort.
FetchFails ==
  /\ sub.pc = "fetch"
  /\ error' = MsgNetwork
  /\ log' = Append(log, "neterr")
  /\ Finally
  /\ UNCHANGED <<form, navigated>>
  /\ UNCHANGED <<users, nextId, reqs>>
  /\ UNCHANGED authVars

\* Lines 67-80: signIn resolves with what authorize decided.
onSubmit_SignIn ==
  /\ sub.pc = "signin"
  /\ SignIn([email |-> sub.form.email, password |-> sub.form.password])
  /\ IF authResult' = Null
     THEN /\ error' = MsgSignIn
          /\ log' = Append(log, "signIn:error")
          /\ UNCHANGED navigated
     ELSE /\ navigated' = TRUE
          /\ log' = log \o <<"signIn:ok", "push">>
          /\ UNCHANGED error
  /\ Finally
  /\ UNCHANGED form

\* Mutant: the return of line 76 is missing, so router.push follows the error.
onSubmit_SignInError_NoReturn ==
  /\ sub.pc = "signin"
  /\ error' = MsgSignIn
  /\ navigated' = TRUE
  /\ log' = log \o <<"signIn:error", "push">>
  /\ Finally
  /\ UNCHANGED form
  /\ UNCHANGED <<users, nextId, reqs>>
  /\ UNCHANGED authVars

\* Lines 74-77: signIn resolves with an error because authorize threw.
onSubmit_SignInError ==
  /\ sub.pc = "signin"
  /\ error' = MsgSignIn
  /\ log' = Append(log, "signIn:error")
  /\ Finally
  /\ UNCHANGED <<form, navigated>>
  /\ UNCHANGED <<users, nextId, reqs>>
  /\ UNCHANGED authVars

\* Lines 81-84: signIn rejects.
onSubmit_SignInThrows ==
  /\ sub.pc = "signin"
  /\ error' = MsgNetwork
  /\ log' = Append(log, "signIn:throw")
  /\ Finally
  /\ UNCHANGED <<form, navigated>>
  /\ UNCHANGED <<users, nextId, reqs>>
  /\ UNCHANGED authVars


\* ------------------------------------------------------------------ specification

Init ==
  /\ users = {}
  /\ nextId = 1
  /\ reqs = [r \in Slots |-> IdleReq]
  /\ InitAuthVars
  /\ InitClientVars

Next ==
  \/ \E r \in Slots, body \in ApiBodies : POST_Begin(r, body) /\ UNCHANGED clientVars
  \/ \E r \in Slots : POST_FindFirst(r) /\ UNCHANGED clientVars
  \/ \E r \in Slots : POST_Create(r) /\ UNCHANGED clientVars

\* Concurrent callers of the endpoint, the storage and the hasher never failing.
Spec == Init /\ [][Next]_vars

NextFaults ==
  \/ Next
  \/ \E r \in Slots : POST_Throws(r) /\ UNCHANGED clientVars
  \/ \E r \in Slots : POST_ParseThrows(r) /\ UNCHANGED clientVars

\* The same, with the awaits of the handler allowed to throw.
SpecFaults == Init /\ [][NextFaults]_vars

NextClient ==
  \/ \E field \in DOMAIN FieldValues : \E value \in FieldValues[field] :
       onChange(field, value)
  \/ \E r \in Slots : onSubmit_Start(r)
  \/ \E r \in Slots : POST_FindFirst(r) /\ UNCHANGED clientVars
  \/ \E r \in Slots : POST_Create(r) /\ UNCHANGED clientVars
  \/ \E r \in Slots : POST_Throws(r) /\ UNCHANGED clientVars
  \/ onSubmit_Response
  \/ onSubmit_Body
  \/ Timeout
  \/ FetchFails
  \/ onSubmit_SignIn
  \/ onSubmit_SignInError
  \/ onSubmit_SignInThrows

\* The register page against the endpoint and the sign-in entry point, with the
\* network, the storage and the timer behaving in every way they can.
SpecClient == Init /\ [][NextClient]_vars

\* signIn settles: it resolves with or without an error, or rejects.
SignInSettles == onSubmit_SignIn \/ onSubmit_SignInError \/ onSubmit_SignInThrows

\* The register page with what the browser guarantees: an armed timer fires unless
\* it is cleared first (line 36), and the request signIn makes is answered or
\* fails. Nothing is assumed of the endpoint: it may never answer.
SpecClientFair ==
  /\ Init /\ [][NextClient]_vars
  /\ WF_vars(Timeout)
  /\ WF_vars(SignInSettles)

NextClientEvents ==
  \/ NextClient
  \/ onSubmit_WhileLoading

\* The register page with submit events arriving at any time, also while a submit
\* is in progress (form.requestSubmit(), a dispatched event).
SpecClientEvents == Init /\ [][NextClientEvents]_vars

\* ------------------------------------------------------------------ claims: registration

\* C2: in every reachable state, under any interleaving of concurrent registration
\* calls, no two user rows share an email and no two share a username.
C2_UniqueEmailAndUsername ==
  \A u \in users : \A v \in users :
    u # v => u.email # v.email /\ u.username # v.username

\* C2's case: two handlers raced past the pre-check with the same email or username
\* and the store holds the row of the one that inserted first.
C2_Witness_RaceRejected ==
  \E r \in Slots : \E q \in Slots :
    /\ r # q
    /\ reqs[r].resp.status = 201
    /\ reqs[q].ops = <<"findFirst", "create:P2002">>
    /\ ~reqs[q].dup
    /\ Cardinality(users) = 1

\* C3: a registration whose create step finds the email or username taken (a
\* concurrent registration inserted it after this call's pre-check) is answered
\* 409, as a duplicate found by the pre-check is.
C3_RaceAnswered409 ==
  \A r \in Slots :
    (reqs[r].pc = "done" /\ reqs[r].ops = <<"findFirst", "create:P2002">>)
      => reqs[r].resp.status = 409

\* C4: a request with email, username or password absent or empty is answered 400
\* in the step that receives it, without a store operation and with the store
\* unchanged.
C4_MissingFieldIs400 ==
  [][\A r \in Slots :
       (/\ reqs[r].pc = "idle"
        /\ reqs'[r].pc # "idle"
        /\ \/ reqs'[r].body.email \in {Undefined, ""}
           \/ reqs'[r].body.username \in {Undefined, ""}
           \/ reqs'[r].body.password \in {Undefined, ""})
       => /\ reqs'[r].pc = "done"
          /\ reqs'[r].resp.status = 400
          /\ reqs'[r].ops = <<>>
          /\ users' = users
          /\ nextId' = nextId]_vars

\* C4's case: an answered request that lacked a field.
C4_Witness_MissingPassword ==
  \E r \in Slots :
    /\ reqs[r].pc = "done"
    /\ reqs[r].body.email \in Emails
    /\ reqs[r].body.username \in Usernames
    /\ reqs[r].body.password = ""
    /\ reqs[r].resp.status = 400
    /\ users # {}

\* C5: a request with all three fields present whose email or username was already
\* in the store when it arrived is answered 409 whatever its password, and no step
\* of it changes the store; no row of the store is ever removed or modified.
C5_DuplicateIs409 ==
  [][/\ \A u \in users : u \in users'
     /\ \A r \in Slots :
          (/\ reqs[r].pc \notin {"idle", "done"}
           /\ reqs[r].dup
           /\ reqs'[r] # reqs[r])
          => /\ reqs'[r].pc = "done"
             /\ reqs'[r].resp.status = 409
             /\ users' = users]_vars

\* C5's case: a duplicate email with another username and another password than
\* the stored user's was answered 409 and the store holds the one row.
C5_Witness_Duplicate409 ==
  \E r \in Slots : \E u \in users :
    /\ reqs[r].pc = "done"
    /\ reqs[r].dup
    /\ reqs[r].body.email = u.email
    /\ reqs[r].body.username # u.username
    /\ ~bcryptCompare(reqs[r].body.password, u.passwordHash)
    /\ reqs[r].resp.status = 409
    /\ users = {u}

\* ------------------------------------------------------------------ claims: sign-in and session

\* C1: a registration answered 201, followed immediately by authorize with the same
\* email and password, yields an Identity (not null) whose id is the id of the 201
\* answer, and every session view derived from the token issued for it carries that
\* id as session.user.id.
C1_RegisterThenSignIn ==
  [][\A c \in Credentials :
       (/\ lastReg # NoCall
        /\ lastReg.fresh
        /\ c.email = lastReg.email
        /\ c.password = lastReg.password
        /\ SignIn(c))
       => /\ authResult' # Null
          /\ authResult'.id = lastReg.id
          /\ identity' = authResult'
          /\ \A s \in SessionInputs(token') :
               LET view == sessionCb(s, token') IN
               /\ "user" \in DOMAIN view
               /\ "id" \in DOMAIN view.user
               /\ view.user.id = lastReg.id]_vars

\* C1's case: the second user registered, signed in at once, and a session view was
\* derived from the token.
C1_Witness_SignedInAfter201 ==
  /\ lastReg # NoCall
  /\ ~lastReg.fresh
  /\ lastReg.id = 2
  /\ authResult # NoResult /\ authResult # Null
  /\ authResult.id = lastReg.id
  /\ authResult.email = lastReg.email
  /\ session # Null
  /\ session.user.id = lastReg.id

\* The three rejections of authorize on store `us`.
NoSuchUser(us, c) == \A u \in us : u.email # c.email
NoPasswordSet(us, c) == \E u \in us : u.email = c.email /\ u.passwordHash = Null
WrongPassword(us, c) ==
  \E u \in us : /\ u.email = c.email
                /\ u.passwordHash # Null
                /\ u.passwordHash.digest # <<u.passwordHash.salt, BcryptCost, c.password>>

\* C6: authorize returns the same result, null, when no user has the email, when
\* the user has no stored hash and when the password does not verify; in each case
\* the caller is left with the same token and session as before.
C6_RejectionsAlike ==
  [][\A c \in Credentials :
       (/\ SignIn(c)
        /\ c.email \in Emails /\ c.password \in Passwords
        /\ NoSuchUser(users, c) \/ NoPasswordSet(users, c) \/ WrongPassword(users, c))
       => /\ authResult' = Null
          /\ token' = token
          /\ session' = session
          /\ identity' = identity]_vars

\* C6's case: the store holds a user without a hash and a user with one, and a
\* sign-in was rejected.
C6_Witness_Rejected ==
  /\ authResult = Null
  /\ FederatedUser \in users
  /\ \E u \in users : u.passwordHash # Null
  /\ token # Null

\* C7: a session view derived from a token carries the id of the Identity of the
\* login, after any number of token refreshes and session derivations.
C7_SessionCarriesUserId ==
  session # Null =>
    /\ identity # Null
    /\ "user" \in DOMAIN session
    /\ "id" \in DOMAIN session.user
    /\ session.user.id = identity.id

\* C7's case: a view derived after the refreshes, from a session that had no user
\* object.
C7_Witness_DerivedAfterRefresh ==
  /\ session # Null
  /\ refreshes = MaxRefresh
  /\ "name" \notin DOMAIN session.user
  /\ session.user.id = identity.id

\* C8: callbacks.jwt sets token.userId to the Identity's id when it is given an
\* Identity, leaving the other claims as they were, and only then; without an
\* Identity (a refresh) it returns the token with every claim unchanged.
C8_TokenEnrichment ==
  [][/\ (refreshes' = refreshes + 1) => (token' = token)
     /\ (token' # token) => (\E c \in Credentials : SignIn(c)) /\ authResult' # Null
     /\ \A c \in Credentials :
          (SignIn(c) /\ authResult' # Null)
          => /\ DOMAIN token' = DOMAIN DefaultToken(authResult') \cup {"userId"}
             /\ token'.userId = authResult'.id
             /\ \A k \in DOMAIN DefaultToken(authResult') :
                  token'[k] = DefaultToken(authResult')[k]]_vars

\* C8's case: a token issued at a login and since refreshed.
C8_Witness_RefreshedToken ==
  /\ token # Null
  /\ refreshes > 0
  /\ token.userId = identity.id
  /\ identity.id = 2

\* ------------------------------------------------------------------ claims: register page

\* C9: in every submit the sign-in call starts only after the registration call of
\* that submit has completed with a success status: what the submit did before
\* starting signIn is the fetch and its 201 response and nothing else (no 400, 409,
\* 500, timeout or network failure), and while one call is pending the other is not.
C9_SignInOnlyAfter201 ==
  /\ \A i \in 1 .. Len(log) :
       log[i] = "signIn" => i = 3 /\ log[1] = "fetch" /\ log[2] = "res:201"
  /\ sub.pc = "signin" =>
       /\ reqs[sub.slot].pc = "done"
       /\ reqs[sub.slot].resp.status = 201
       /\ log = <<"fetch", "res:201", "signIn">> \/ log = <<"fetch", "res:201", "signIn", "abort">>
  /\ sub.pc = "fetch" => log = <<"fetch">>

\* C9's case: the sign-in call of a submit is pending.
C9_Witness_SignInPending ==
  /\ sub.pc = "signin"
  /\ log = <<"fetch", "res:201", "signIn">>
  /\ loading

\* C10: when the timer fires while the registration call of the submit is pending,
\* the submit ends there: the page shows the timeout message, which is not the
\* network-failure message, loading is false, and the submit has made no sign-in
\* and no navigation.
C10_TimeoutDuringRegistration ==
  [][(timer = "armed" /\ sub.pc = "fetch" /\ log' = Append(log, "abort"))
      => /\ error' = MsgTimeout
         /\ error' # MsgNetwork
         /\ loading' = FALSE
         /\ sub' = IdleSub
         /\ timer' = "off"
         /\ log' = <<"fetch", "abort">>
         /\ navigated' = FALSE
         /\ UNCHANGED authVars]_vars

\* C10's case: the submit timed out while the endpoint was still working on its
\* request.
C10_Witness_TimedOut ==
  /\ log = <<"fetch", "abort">>
  /\ error = MsgTimeout
  /\ ~loading
  /\ \E r \in Slots : reqs[r].pc = "create"

\* ------------------------------------------------------------------ claims: failures of the endpoint

\* C11: an invocation of the endpoint that ended in a thrown exception (the body
\* could not be parsed, the storage or the hasher failed, the insert was refused)
\* is answered 500 with a body that holds the fixed message "Serverfeil" and
\* nothing else; every other invocation is answered 201, 400 or 409.
C11_FailureIsGeneric500 ==
  \A r \in Slots :
    reqs[r].pc = "done" =>
      LET ops == reqs[r].ops
          threw == ops # <<>> /\ ops[Len(ops)] \in {"throw", "create:P2002"}
      IN /\ reqs[r].resp.status \in {201, 400, 409, 500}
         /\ threw <=> reqs[r].resp.status = 500
         /\ threw => reqs[r].resp = [status |-> 500, error |-> "Serverfeil"]

\* C11's case: one invocation failed while hashing or inserting, after its pre-check
\* had passed, and another failed in the pre-check.
C11_Witness_ThrewAfterPrecheck ==
  \E r \in Slots : \E q \in Slots :
    /\ reqs[r].pc = "done" /\ reqs[r].ops = <<"findFirst", "throw">>
    /\ reqs[q].pc = "done" /\ reqs[q].ops = <<"throw">>
    /\ Truthy(reqs[q].body.email)
    /\ reqs[r].resp.status = 500 /\ reqs[q].resp.status = 500

\* ------------------------------------------------------------------ claims: what callers see

\* The text fields of object `obj` hold no password.
NoPasswordIn(obj, fields) == \A k \in fields : obj[k] \notin Passwords

\* C12: no value returned to a caller holds the password hash or the password. The
\* 201 answer to any registration holds status and user, the user holding id, email
\* and username only; the Identity authorize returns holds id, name and email
\* only; the token holds name, email, sub and userId only; the session view holds
\* expires and user, the user holding at most name, email and id.
C12_NoHashNoPassword ==
  /\ \A body \in SeqBodies : \A salt \in Salts :
       LET resp == POST(users, nextId, body, salt).resp IN
       /\ DOMAIN resp \in {{"status", "user"}, {"status", "error"}}
       /\ resp.status = 201 =>
            /\ DOMAIN resp = {"status", "user"}
            /\ DOMAIN resp.user = {"id", "email", "username"}
            /\ NoPasswordIn(resp.user, {"email", "username"})
  /\ (authResult # NoResult /\ authResult # Null) =>
       /\ DOMAIN authResult = {"id", "name", "email"}
       /\ NoPasswordIn(authResult, {"name", "email"})
  /\ token # Null =>
       /\ DOMAIN token = {"name", "email", "sub", "userId"}
       /\ NoPasswordIn(token, {"name", "email"})
  /\ session # Null =>
       /\ DOMAIN session = {"user", "expires"}
       /\ DOMAIN session.user \subseteq {"name", "email", "id"}
       /\ NoPasswordIn(session.user, DOMAIN session.user \ {"id"})

\* C12's case: a user registered with a display name, signed in, and a session view
\* was derived; the row of that user holds the hash of the password.
C12_Witness_SessionOfRegistered ==
  /\ session # Null
  /\ "name" \in DOMAIN session.user
  /\ session.user.name = "Alice A"
  /\ \E u \in users :
       /\ u.id = session.user.id
       /\ u.passwordHash # Null
       /\ u.passwordHash.digest[3] \in Passwords

\* The credentials line 40 rejects: the email or the password absent or empty.
MissingCredentials == {c \in Credentials : c.email \in Falsy \/ c.password \in Falsy}

\* C13: a sign-in whose email or whose password is absent or empty makes authorize
\* return null having made no user-store lookup and no password verification, and
\* leaves the store, the token and the session as they were; whenever authorize
\* made no call, what it returned is null.
C13_MissingCredentialNoLookup ==
  [][/\ (nextId' = nextId /\ refreshes' <= refreshes) =>
          \A c \in MissingCredentials :
            SignIn(c)
            => /\ authResult' = Null
               /\ authCalls' = <<>>
               /\ UNCHANGED <<users, nextId, identity, token, session>>
     /\ (authCalls' = <<>> /\ authResult' # NoResult) => authResult' = Null]_vars

\* C13's case: authorize returned null without a call while the store holds a user
\* who has a password, and an earlier sign-in had issued a token.
C13_Witness_RejectedWithoutLookup ==
  /\ authResult = Null
  /\ authCalls = <<>>
  /\ \E u \in users : u.passwordHash # Null
  /\ token # Null

\* ------------------------------------------------------------------ claims: outcome of a submit

\* The messages onSubmit can set.
Messages == {MsgConflict, MsgMissing, MsgServer, MsgSignIn, MsgTimeout, MsgNetwork}

\* C14: the page has navigated to /profile only if the submit that did it got the
\* 201 response to its registration and then a sign-in result without error, for
\* the user that registration created; a submit that ended any other way (400,
\* 409, 500, sign-in error, timeout, network failure) has not navigated and has
\* left one of the error messages, none of which is empty; no submit is running
\* after a navigation.
C14_NavigationOnlyOnSuccess ==
  /\ navigated =>
       /\ \/ log = <<"fetch", "res:201", "signIn", "signIn:ok", "push">>
          \/ log = <<"fetch", "res:201", "signIn", "abort", "signIn:ok", "push">>
       /\ authResult # NoResult /\ authResult # Null
       /\ \E r \in Slots :
            /\ reqs[r].resp.status = 201
            /\ reqs[r].resp.user.id = authResult.id
            /\ reqs[r].resp.user.email = authResult.email
       /\ sub.pc = "idle"
  /\ (sub.pc = "idle" /\ log # <<>> /\ log[Len(log)] # "push") =>
       /\ ~navigated
       /\ error \in Messages
       /\ error # ""
  /\ \A i \in 1 .. Len(log) : log[i] = "push" => i = Len(log) /\ navigated

\* C14's case: the page has navigated after a registration and a sign-in that both
\* succeeded.
C14_Witness_Navigated ==
  /\ navigated
  /\ log = <<"fetch", "res:201", "signIn", "signIn:ok", "push">>
  /\ error = ""
  /\ ~loading

SubmitEvent == onSubmit_WhileLoading \/ \E r \in Slots : onSubmit_Start(r)

\* C16: the loading flag is true for as long as the registration request of a
\* submit is in flight, and a submit event that arrives while it is true starts
\* no request and changes nothing: not the form, the message, the flag, the
\* running submit, its timer, or the requests the endpoint holds.
C16_SubmitWhileLoadingIsNoOp ==
  /\ [](sub.pc # "idle" <=> loading)
  /\ [][(loading /\ SubmitEvent) => UNCHANGED vars]_vars

\* ------------------------------------------------------------------ claims: cancellation

\* The submit that sent request r has ended in the timeout message, and the endpoint
\* has created the user of request r.
TimedOutButCreated(r) ==
  /\ sub.pc = "idle"
  /\ log = <<"fetch", "abort">>
  /\ error = MsgTimeout
  /\ reqs[r].pc = "done"
  /\ reqs[r].resp.status = 201
  /\ \A q \in Slots : q > r => reqs[q].pc = "idle"

\* The user request r created is on its own: the submit of r is over, no sign-in has
\* been made, nothing has navigated, every later request arrived with the user in
\* the store, and each of them that has been answered was answered 409, or 500
\* because the storage failed.
CreatedNotSignedIn(r) ==
  /\ reqs[r].pc = "done"
  /\ reqs[r].resp.status = 201
  /\ \E u \in users : u.id = reqs[r].resp.user.id /\ u.email = reqs[r].body.email
  /\ sub.slot # r
  /\ sub.pc # "signin"
  /\ authResult = NoResult
  /\ token = Null
  /\ ~navigated
  /\ \A q \in Slots : (q > r /\ reqs[q].pc # "idle") => reqs[q].dup
  /\ \A q \in Slots :
       (q > r /\ reqs[q].pc = "done") =>
         \/ reqs[q].resp.status = 409 /\ reqs[q].ops = <<"findFirst">>
         \/ reqs[q].resp.status = 500 /\ reqs[q].ops = <<"throw">>
  /\ log = <<"fetch", "res:409", "return">> => error = MsgConflict

\* C17: once a submit has ended in the timeout message although the endpoint has
\* created its user, the user stays in the store, every later submit of the form is
\* answered 409 (500 if the storage fails) and ends in an error message, and no
\* submit ever signs the user in or navigates.
C17_TimeoutIsNotAbort ==
  /\ [](\A r \in Slots : TimedOutButCreated(r) => CreatedNotSignedIn(r))
  /\ [][\A r \in Slots : CreatedNotSignedIn(r) => CreatedNotSignedIn(r)']_vars

\* C17's case: the page shows the timeout message of its first submit and the user
\* of that submit is in the store with the password of the form.
C17_Witness_TimedOutUserExists ==
  /\ TimedOutButCreated(1)
  /\ ~loading
  /\ \E u \in users :
       /\ u.email = "a@x.com"
       /\ bcryptCompare("secret123", u.passwordHash)

\* ------------------------------------------------------------------ claims: the Identity's name

\* C18: the Identity authorize returns for a user carries as name the user's
\* display name, or the username when the user has none: when the column is NULL
\* and when it is the empty string the form sends for a display-name field left
\* blank.
C18_NameIsDisplayNameOrUsername ==
  (authResult # NoResult /\ authResult # Null) =>
    \A u \in users :
      u.id = authResult.id =>
        authResult.name = IF u.displayName \in {NullText, ""} THEN u.username
                          ELSE u.displayName

\* ------------------------------------------------------------------ claims: the timer after the response

\* The timer fires in this step.
TimerFires == timer = "armed" /\ log' = Append(log, "abort")

\* C19: the page shows the timeout message only for a submit whose fetch was
\* aborted before its response arrived. A timer that fires while signIn is pending
\* changes nothing but itself: the message, the loading flag, the pending signIn and
\* the sign-in state stay, and the submit ends as signIn decides, navigation
\* included. A timer that fires while the body of an error response is read ends
\* the submit with the message of that response's status, not the timeout message.
C19_TimerAfterResponse ==
  /\ [](/\ error = MsgTimeout => log = <<"fetch", "abort">>
        /\ log = <<"fetch", "res:201", "signIn", "abort", "signIn:ok", "push">>
             => navigated /\ error = ""
        /\ log = <<"fetch", "res:201", "signIn", "abort", "signIn:error">>
             => error = MsgSignIn
        /\ log = <<"fetch", "res:201", "signIn", "abort", "signIn:throw">>
             => error = MsgNetwork)
  /\ [][/\ (TimerFires /\ sub.pc = "signin") =>
            /\ timer' = "fired"
            /\ UNCHANGED <<form, error, loading, navigated, sub>>
            /\ UNCHANGED <<users, nextId, reqs>>
            /\ UNCHANGED authVars
        /\ (TimerFires /\ sub.pc = "body") =>
            /\ error' = ErrorFor(sub.status, reqs[sub.slot].resp)
            /\ error' \in {MsgConflict, MsgMissing, MsgServer}
            /\ ~loading' /\ ~navigated']_vars

\* C19's case: the timer fired while signIn was pending, signIn went on to succeed
\* and the page navigated.
C19_Witness_NavigatedAfterTimer ==
  /\ navigated
  /\ log = <<"fetch", "res:201", "signIn", "abort", "signIn:ok", "push">>
  /\ authResult # Null /\ authResult # NoResult
  /\ token # Null

====
